---- MODULE Spec2Model ----
(***************************************************************************)
(* A model of uv's ResolverEnvironment                                     *)
(* (crates/uv-resolver/src/resolver/environment.rs): the environment that  *)
(* one branch ("fork") of a resolution must satisfy, its queries, its      *)
(* narrowing and the initial forking over the seeded marker expressions.   *)
(*                                                                         *)
(* The collaborators that live in other crates/modules (MarkerTree,        *)
(* marker::requires_python, PythonRequirement::narrow, ForkState) are      *)
(* modelled from their documented interface: a marker expression is the    *)
(* set of environment descriptors it matches (uv's MarkerTree is a         *)
(* canonical decision diagram, so equal sets are equal trees).             *)
(***************************************************************************)
EXTENDS Integers, Sequences, FiniteSets

\* ------------------------------------------------------------------ bounds
\* Language versions are 1..MaxPy (an abstraction of 3.8, 3.9, ..., in order).
MaxPy == 3
\* The longest list of initial forks given to universal().
MaxSeeds == 3
\* The number of narrow_markers calls made: on the root environment, and then
\* on the branches' environments.
MaxNarrow == 2

\* ------------------------------------------- environment descriptors, markers
OS == {"linux", "darwin", "win32"}
Py == 1..MaxPy

\* MarkerEnvironment: a concrete snapshot of the environment's attributes.
Desc == [os : OS, py : Py]

\* MarkerTree::TRUE / MarkerTree::FALSE
MarkerTrue == Desc
MarkerFalse == {}

\* os == "o", python_version >= k, python_version < k
OsEq(o) == {d \in Desc : d.os = o}
PyGe(k) == {d \in Desc : d.py >= k}
PyLt(k) == {d \in Desc : d.py < k}

\* MarkerTree::and (the receiver's new value)
And(lhs, rhs) == lhs \cap rhs

\* MarkerTree::is_disjoint
IsDisjoint(a, b) == a \cap b = {}

\* MarkerTree::evaluate
Evaluate(marker, marker_env) == marker_env \in marker

\* MarkerTree::is_true
IsTrue(marker) == marker = Desc

\* Option<T>
None == <<>>
Some(x) == <<x>>
IsSome(o) == Len(o) = 1
Unwrap(o) == o[1]

\* ------------------------------------------------- language-version ranges
SetMin(S) == CHOOSE x \in S : \A y \in S : x <= y
SetMax(S) == CHOOSE x \in S : \A y \in S : y <= x

\* crate::marker::requires_python: the bounding range of the language
\* versions the marker admits; absent when the marker does not constrain the
\* version (or admits nothing).
RequiresPython(tree) ==
    LET vs == {d.py : d \in tree}
    IN  IF vs = {} \/ vs = Py
        THEN None
        ELSE Some([lo |-> SetMin(vs), hi |-> SetMax(vs)])

\* PythonRequirement::narrow: the requirement restricted to the range; absent
\* when nothing is left.
Narrow(req, range) ==
    LET lo == IF req.lo >= range.lo THEN req.lo ELSE range.lo
        hi == IF req.hi <= range.hi THEN req.hi ELSE range.hi
    IN  IF lo > hi THEN None ELSE Some([lo |-> lo, hi |-> hi])

\* ------------------------------------------------------ ResolverEnvironment
\* Kind::Specific { marker_env }
KindSpecific(marker_env) == [kind |-> "Specific", marker_env |-> marker_env]

\* Kind::Universal { initial_forks, markers }
KindUniversal(initial_forks, markers) ==
    [kind |-> "Universal", initial_forks |-> initial_forks, markers |-> markers]

\* ResolverEnvironment::specific
specific(marker_env) == KindSpecific(marker_env)

\* ResolverEnvironment::universal
universal(initial_forks) == KindUniversal(initial_forks, MarkerTrue)

\* included with the negation lost: markers.is_disjoint(marker)
included_negated(self, marker) ==
    IF self.kind = "Specific"
    THEN Evaluate(marker, self.marker_env)
    ELSE IsDisjoint(self.markers, marker)

\* ResolverEnvironment::included
included(self, marker) ==
    IF self.kind = "Specific"
    THEN Evaluate(marker, self.marker_env)
    ELSE ~IsDisjoint(self.markers, marker)

\* in_fork that evaluates the marker for Specific, as included does
in_fork_evaluates(self, marker) ==
    IF self.kind = "Specific"
    THEN Evaluate(marker, self.marker_env)
    ELSE ~IsDisjoint(self.markers, marker)

\* in_fork with the negation lost: markers.is_disjoint(marker)
in_fork_negated(self, marker) ==
    IF self.kind = "Specific"
    THEN TRUE
    ELSE IsDisjoint(self.markers, marker)

\* ResolverEnvironment::in_fork
in_fork(self, marker) ==
    IF self.kind = "Specific"
    THEN TRUE
    ELSE ~IsDisjoint(self.markers, marker)

\* ResolverEnvironment::marker_environment
marker_environment(self) ==
    IF self.kind = "Specific" THEN Some(self.marker_env) ELSE None

\* narrow_markers that replaces the expression instead of conjoining: lhs = rhs
narrow_markers_replace(self, rhs) ==
    IF self.kind = "Specific"
    THEN self
    ELSE KindUniversal(self.initial_forks, rhs)

\* narrow_markers that widens: lhs.or(rhs)
narrow_markers_or(self, rhs) ==
    IF self.kind = "Specific"
    THEN self
    ELSE KindUniversal(self.initial_forks, self.markers \cup rhs)

\* narrow_markers without the case analysis: a Specific environment becomes
\* a Universal one holding the narrowing expression
narrow_markers_no_case(self, rhs) ==
    IF self.kind = "Specific"
    THEN KindUniversal(<<>>, And(MarkerTrue, rhs))
    ELSE KindUniversal(self.initial_forks, And(self.markers, rhs))

\* ResolverEnvironment::narrow_markers
narrow_markers(self, rhs) ==
    IF self.kind = "Specific"
    THEN self
    ELSE KindUniversal(self.initial_forks, And(self.markers, rhs))

\* markers that gives a Specific environment the expression matching its
\* one descriptor
markers_pinned(self) ==
    IF self.kind = "Specific" THEN {self.marker_env} ELSE self.markers

\* ResolverEnvironment::markers
markers(self) ==
    IF self.kind = "Specific" THEN MarkerTrue ELSE self.markers

\* try_markers with the is_true() test lost
try_markers_unchecked(self) ==
    IF self.kind = "Specific" THEN None ELSE Some(self.markers)

\* ResolverEnvironment::try_markers
try_markers(self) ==
    IF self.kind = "Specific"
    THEN None
    ELSE IF IsTrue(self.markers) THEN None ELSE Some(self.markers)

\* ResolverEnvironment::requires_python_range
requires_python_range(self) == RequiresPython(markers(self))

\* narrow_python_requirement that keeps the requirement when no range is
\* derived: .unwrap_or(python_requirement)
narrow_python_requirement_keep(self, python_requirement) ==
    LET range == requires_python_range(self)
    IN  IF ~IsSome(range)
        THEN Some(python_requirement)
        ELSE Narrow(python_requirement, Unwrap(range))

\* ResolverEnvironment::narrow_python_requirement
\*   Some(python_requirement.narrow(&self.requires_python_range()?)?)
narrow_python_requirement(self, python_requirement) ==
    LET range == requires_python_range(self)
    IN  IF ~IsSome(range)
        THEN None
        ELSE Narrow(python_requirement, Unwrap(range))

\* ResolverEnvironment::end_user_fork_display
end_user_fork_display(self) ==
    IF self.kind = "Specific"
    THEN None
    ELSE IF IsTrue(self.markers) THEN None ELSE Some(<<"split", self.markers>>)

\* impl Display for ResolverEnvironment
Display(self) ==
    IF self.kind = "Specific"
    THEN <<"Marker Environment">>
    ELSE IF IsTrue(self.markers)
         THEN <<"All Marker Environments">>
         ELSE <<"Split", self.markers>>

\* ---------------------------------------------------------------- ForkState
\* The resolver's per-branch state: the branch's environment and the rest of
\* the branch's search state (here its Python requirement).
ForkState(env_, python_requirement) ==
    [env |-> env_, python_requirement |-> python_requirement]

\* ForkState::with_env: the state with its environment narrowed to the markers
\* (the rest of the branch's state is carried along as it is).
with_env(state, mk) == [state EXCEPT !.env = narrow_markers(state.env, mk)]

Reverse(s) == [i \in 1..Len(s) |-> s[Len(s) + 1 - i]]

\* forked_states with the narrowing lost: .map(|_| init.clone())
forked_states_unnarrowed(self, init_) ==
    IF self.kind # "Universal"
    THEN <<init_>>
    ELSE IF self.initial_forks = <<>>
         THEN <<init_>>
         ELSE [i \in 1..Len(self.initial_forks) |-> init_]

\* forked_states with the .rev() lost
forked_states_in_order(self, init_) ==
    IF self.kind # "Universal"
    THEN <<init_>>
    ELSE IF self.initial_forks = <<>>
         THEN <<init_>>
         ELSE [i \in 1..Len(self.initial_forks) |->
                  with_env(init_, self.initial_forks[i])]

\* forked_states with the is_empty() early return lost
forked_states_no_empty_check(self, init_) ==
    IF self.kind # "Universal"
    THEN <<init_>>
    ELSE LET rev == Reverse(self.initial_forks)
         IN  [i \in 1..Len(rev) |-> with_env(init_, rev[i])]

\* ResolverEnvironment::forked_states
forked_states(self, init_) ==
    IF self.kind # "Universal"
    THEN <<init_>>
    ELSE IF self.initial_forks = <<>>
         THEN <<init_>>
         ELSE LET rev == Reverse(self.initial_forks)
              IN  [i \in 1..Len(rev) |-> with_env(init_, rev[i])]

\* ------------------------------------------------------------ input domains
\* The marker expressions callers seed universal() with.
SeedPool == {OsEq("linux"), OsEq("darwin"), OsEq("win32"), MarkerFalse}

\* The marker expressions the engine narrows with.
NarrowPool == {OsEq("linux"), OsEq("win32"), PyGe(2)}

\* The marker expressions the queries are asked about.
QueryPool == {MarkerTrue, MarkerFalse, OsEq("linux"), OsEq("darwin"),
              PyGe(2), PyLt(2)}

\* The Python requirements asked about: ">=1", ">=2", "<2".
ReqPool == {[lo |-> 1, hi |-> MaxPy], [lo |-> 2, hi |-> MaxPy], [lo |-> 1, hi |-> 1]}

\* The Python requirements a fork state starts with: ">=1", ">=2".
ForkReqPool == {[lo |-> 1, hi |-> MaxPy], [lo |-> 2, hi |-> MaxPy]}

\* The marker expressions the engine narrows the branches with.
BranchPool == {OsEq("linux"), PyGe(2)}

SeqsUpTo(S, n) == UNION {[1..k -> S] : k \in 0..n}

\* --------------------------------------------------------------------- state
VARIABLES
    pc,      \* "new": nothing constructed; "root": the environment exists;
             \* "forked": forked_states has been called
    env,     \* the resolver's environment (self)
    trail,   \* the environments so far: as constructed, then after each narrow_markers
    path,    \* the arguments of the narrow_markers calls so far
    init,    \* the ForkState given to forked_states
    forks,   \* what forked_states returned
    branches, \* the environment each branch holds now: its clone, narrowed
    bpath,   \* per branch, the arguments of its narrow_markers calls so far
    obs      \* the last call if it was a query of env (included and in_fork, or
             \* narrow_python_requirement): its argument and what it returned

vars == <<pc, env, trail, path, init, forks, branches, bpath, obs>>

NoEnv == [kind |-> "None"]
NoObs == <<>>

Init ==
    /\ pc = "new"
    /\ env = NoEnv
    /\ trail = <<>>
    /\ path = <<>>
    /\ init = <<>>
    /\ forks = <<>>
    /\ branches = <<>>
    /\ bpath = <<>>
    /\ obs = NoObs

\* let env = ResolverEnvironment::specific(marker_env)
Specific(marker_env) ==
    /\ pc = "new"
    /\ pc' = "root"
    /\ env' = specific(marker_env)
    /\ trail' = <<env'>>
    /\ UNCHANGED <<path, init, forks, branches, bpath, obs>>

\* let env = ResolverEnvironment::universal(initial_forks)
Universal(initial_forks) ==
    /\ pc = "new"
    /\ pc' = "root"
    /\ env' = universal(initial_forks)
    /\ trail' = <<env'>>
    /\ UNCHANGED <<path, init, forks, branches, bpath, obs>>

\* env = env.narrow_markers(rhs)
NarrowMarkers(rhs) ==
    /\ pc = "root"
    /\ Len(path) < MaxNarrow
    /\ env' = narrow_markers(env, rhs)
    /\ trail' = Append(trail, env')
    /\ path' = Append(path, rhs)
    /\ obs' = NoObs
    /\ UNCHANGED <<pc, init, forks, branches, bpath>>

\* env.narrow_python_requirement(python_requirement)
NarrowPythonRequirement(python_requirement) ==
    /\ pc = "root"
    /\ obs' = <<[op |-> "narrow_python_requirement",
                 req |-> python_requirement,
                 result |-> narrow_python_requirement(env, python_requirement)]>>
    /\ UNCHANGED <<pc, env, trail, path, init, forks, branches, bpath>>

\* env.included(marker) and env.in_fork(marker)
Query(marker) ==
    /\ pc = "root"
    /\ obs' = <<[op |-> "query",
                 marker |-> marker,
                 included |-> included(env, marker),
                 in_fork |-> in_fork(env, marker)]>>
    /\ UNCHANGED <<pc, env, trail, path, init, forks, branches, bpath>>

\* env.markers(), env.try_markers(), env.end_user_fork_display() and
\* format!("{env}")
Inspect ==
    /\ pc = "root"
    /\ obs' = <<[op |-> "inspect",
                 markers |-> markers(env),
                 try_markers |-> try_markers(env),
                 label |-> end_user_fork_display(env),
                 display |-> Display(env)]>>
    /\ UNCHANGED <<pc, env, trail, path, init, forks, branches, bpath>>

\* env.forked_states(ForkState::new(.., env.clone(), python_requirement))
ForkedStates(python_requirement) ==
    /\ pc = "root"
    /\ pc' = "forked"
    /\ init' = <<ForkState(env, python_requirement)>>
    /\ forks' = forked_states(env, ForkState(env, python_requirement))
    /\ branches' = [i \in 1..Len(forks') |-> forks'[i].env]
    /\ bpath' = [i \in 1..Len(forks') |-> <<>>]
    /\ obs' = NoObs
    /\ UNCHANGED <<env, trail, path>>

\* The narrow_markers calls made so far on the branches' environments.
RECURSIVE BranchCalls(_)
BranchCalls(i) == IF i = 0 THEN 0 ELSE Len(bpath[i]) + BranchCalls(i - 1)

\* Branch i's narrowing with the expression shared between the clones: the
\* conjunction lands in every branch's environment
NarrowBranchShared(i, rhs) ==
    /\ pc = "forked"
    /\ Len(path) + BranchCalls(Len(bpath)) < MaxNarrow
    /\ branches' = [k \in 1..Len(branches) |-> narrow_markers(branches[k], rhs)]
    /\ bpath' = [bpath EXCEPT ![i] = Append(@, rhs)]
    /\ UNCHANGED <<pc, env, trail, path, init, forks, obs>>

\* branches[i] = branches[i].narrow_markers(rhs): branch i narrows the
\* environment it holds; the receiver and the other clones are left alone
NarrowBranch(i, rhs) ==
    /\ pc = "forked"
    /\ Len(path) + BranchCalls(Len(bpath)) < MaxNarrow
    /\ branches' = [branches EXCEPT ![i] = narrow_markers(@, rhs)]
    /\ bpath' = [bpath EXCEPT ![i] = Append(@, rhs)]
    /\ UNCHANGED <<pc, env, trail, path, init, forks, obs>>

Next ==
    \/ pc = "new" /\ \E d \in Desc : Specific(d)
    \/ pc = "new" /\ \E s \in SeqsUpTo(SeedPool, MaxSeeds) : Universal(s)
    \/ pc = "root" /\ \E m \in NarrowPool : NarrowMarkers(m)
    \/ pc = "root" /\ \E r \in ReqPool : NarrowPythonRequirement(r)
    \/ pc = "root" /\ \E m \in QueryPool : Query(m)
    \/ pc = "root" /\ Inspect
    \/ pc = "root" /\ \E r \in ForkReqPool : ForkedStates(r)
    \/ pc = "forked" /\ \E i \in 1..Len(branches) : \E m \in BranchPool :
                            NarrowBranch(i, m)

Spec == Init /\ [][Next]_vars

\* ------------------------------------------------------------ the claims
\* The descriptors an environment's current marker expression matches.
Matched(e) == {d \in Desc : Evaluate(markers(e), d)}

Satisfiable(marker) == \E d \in Desc : Evaluate(marker, d)

NoCommonDescriptor(a, b) == ~\E d \in Desc : Evaluate(a, d) /\ Evaluate(b, d)

PairwiseDisjoint(s) ==
    \A i, j \in 1..Len(s) : i # j => NoCommonDescriptor(s[i], s[j])

\* forked_states has been called on a Universal environment.
ForkedUniversal == pc = "forked" /\ env.kind = "Universal"

\* The descriptors matched by at least one of the returned fork states.
ForksUnion == UNION {Matched(forks[i].env) : i \in 1..Len(forks)}

\* C1: when forked_states is called on a Universal environment with N >= 1
\* pairwise-disjoint, satisfiable seeds, it returns exactly N fork states and
\* no descriptor is matched by the marker expressions of two of them.
C1_ForksDisjoint ==
    (/\ ForkedUniversal
     /\ Len(env.initial_forks) >= 1
     /\ PairwiseDisjoint(env.initial_forks)
     /\ \A i \in 1..Len(env.initial_forks) : Satisfiable(env.initial_forks[i]))
    => /\ Len(forks) = Len(env.initial_forks)
       /\ \A i, j \in 1..Len(forks) :
             i # j => Matched(forks[i].env) \cap Matched(forks[j].env) = {}

C1_Witness ==
    /\ ForkedUniversal
    /\ env.initial_forks = <<OsEq("linux"), OsEq("darwin"), OsEq("win32")>>
    /\ path = <<PyGe(2)>>
    /\ Len(forks) = 3
    /\ \A i \in 1..3 : Matched(forks[i].env) # {}

\* C2 as stated: for any seed list, the union of the descriptors matched by
\* the returned fork states equals the descriptors matched by the parent.
C2_CoverageAnySeeds ==
    ForkedUniversal => ForksUnion = Matched(init[1].env)

\* C2 amended: the union of the descriptors matched by the returned fork
\* states is the part of the parent's set that some seed matches (all of the
\* parent's set when the seed list is empty): it equals the parent's set
\* exactly when the seed list is empty or the seeds jointly cover the parent's
\* expression, and it never holds a descriptor the parent does not match.
C2_CoverageOfSeeds ==
    ForkedUniversal =>
        LET seeds == env.initial_forks
            parent == Matched(init[1].env)
            seeded == {d \in parent :
                          \E i \in 1..Len(seeds) : Evaluate(seeds[i], d)}
            union == ForksUnion
        IN  /\ union \subseteq parent
            /\ seeds = <<>> => union = parent
            /\ seeds # <<>> => union = seeded
            /\ (union = parent) <=> (seeds = <<>> \/ seeded = parent)

C2_Witness ==
    /\ ForkedUniversal
    /\ env.initial_forks = <<OsEq("linux"), OsEq("darwin")>>
    /\ path = <<PyGe(2)>>
    /\ ForksUnion # Matched(init[1].env)
    /\ ForksUnion # {}

\* C3: for a Universal environment with a non-empty seed list s1..sN,
\* forked_states(init) returns N fork states, the i-th being init narrowed to
\* seed s(N+1-i): the last-listed seed comes first.
C3_OrderReversal ==
    (ForkedUniversal /\ env.initial_forks # <<>>) =>
        LET seeds == env.initial_forks
            N == Len(seeds)
        IN  /\ Len(forks) = N
            /\ \A i \in 1..N :
                  /\ forks[i].env.kind = "Universal"
                  /\ forks[i].env.initial_forks = seeds
                  /\ forks[i].env.markers =
                        And(markers(init[1].env), seeds[N + 1 - i])

C3_Witness ==
    /\ ForkedUniversal
    /\ env.initial_forks = <<OsEq("linux"), OsEq("darwin"), OsEq("win32")>>
    /\ path = <<>>
    /\ forks[1].env.markers = OsEq("win32")
    /\ forks[2].env.markers = OsEq("darwin")
    /\ forks[3].env.markers = OsEq("linux")

\* C4: when the environment is Specific, or Universal with an empty seed list
\* (however far its expression has been narrowed), forked_states(init) returns
\* exactly one fork state, the input unchanged.
C4_NoOpForking ==
    (/\ pc = "forked"
     /\ \/ env.kind = "Specific"
        \/ env.kind = "Universal" /\ env.initial_forks = <<>>)
    => /\ Len(forks) = 1
       /\ forks[1] = init[1]

C4_Witness ==
    /\ ForkedUniversal
    /\ env.initial_forks = <<>>
    /\ path = <<OsEq("linux"), PyGe(2)>>
    /\ ~IsTrue(env.markers)
    /\ forks = <<init[1]>>

\* The last call was narrow_python_requirement / included and in_fork.
AskedRequirement == obs # NoObs /\ obs[1].op = "narrow_python_requirement"
AskedQuery == obs # NoObs /\ obs[1].op = "query"

\* The requirement admits language version v.
Compatible(req, v) == req.lo <= v /\ v <= req.hi

\* The descriptor a Specific environment was constructed with.
Pinned == trail[1].marker_env

\* C5 as stated: for a Specific environment pinned to a descriptor of language
\* version v, narrow_python_requirement of a requirement that admits v (">=3.8"
\* and 3.11) yields a present requirement that admits v, marker_environment()
\* is the pinned descriptor and try_markers() is absent.
C5_SpecificNarrowsRequirement ==
    (/\ AskedRequirement
     /\ env.kind = "Specific"
     /\ Compatible(obs[1].req, Pinned.py))
    => /\ IsSome(obs[1].result)
       /\ Compatible(Unwrap(obs[1].result), Pinned.py)
       /\ marker_environment(env) = Some(Pinned)
       /\ try_markers(env) = None

\* C5 amended: for a Specific environment, narrow_python_requirement is
\* absent for every requirement (markers() is "always true", from which no
\* version range is derived), marker_environment() is the pinned descriptor and
\* try_markers() is absent.
C5_SpecificDerivesNoRange ==
    (AskedRequirement /\ env.kind = "Specific")
    => /\ obs[1].result = None
       /\ marker_environment(env) = Some(Pinned)
       /\ try_markers(env) = None

C5_Witness ==
    /\ AskedRequirement
    /\ env.kind = "Specific"
    /\ Pinned = [os |-> "linux", py |-> 3]
    /\ obs[1].req = [lo |-> 2, hi |-> MaxPy]
    /\ obs[1].result = None
    /\ marker_environment(env) = Some(Pinned)

\* C6: along any sequence of narrow_markers calls on a Universal environment,
\* the expression after the calls matches exactly the descriptors that the
\* expression after any prefix matches and that every later argument matches,
\* so it never matches a descriptor an earlier expression did not.
C6_NarrowingMonotone ==
    (pc # "new" /\ env.kind = "Universal") =>
        /\ Len(trail) = Len(path) + 1
        /\ env = trail[Len(trail)]
        /\ LET matched == [k \in 1..Len(trail) |-> Matched(trail[k])]
           IN  \A i \in 1..Len(trail) : \A j \in i..Len(trail) :
                  /\ matched[j] \subseteq matched[i]
                  /\ matched[j] =
                        {d \in matched[i] :
                            \A k \in i..(j - 1) : Evaluate(path[k], d)}

C6_Witness ==
    /\ env.kind = "Universal"
    /\ path = <<OsEq("linux"), PyGe(2)>>
    /\ Matched(env) # Matched(trail[2])
    /\ Matched(trail[2]) # Matched(trail[1])
    /\ Matched(env) # {}

\* C7: for a Specific environment pinned to d, included(m) is whether d
\* satisfies m and in_fork(m) is true, also when d does not satisfy m; for a
\* Universal environment both are whether some descriptor is matched by the
\* current expression and by m, so the two agree.
C7_QueryDefinitions ==
    AskedQuery =>
        LET m == obs[1].marker
        IN  /\ env.kind = "Specific" =>
                /\ obs[1].included = Evaluate(m, Pinned)
                /\ obs[1].in_fork = TRUE
            /\ env.kind = "Universal" =>
                /\ obs[1].included =
                      (\E d \in Desc : d \in Matched(env) /\ Evaluate(m, d))
                /\ obs[1].in_fork = obs[1].included

C7_Witness ==
    /\ AskedQuery
    /\ env.kind = "Specific"
    /\ path # <<>>
    /\ ~Evaluate(obs[1].marker, Pinned)
    /\ obs[1].included = FALSE
    /\ obs[1].in_fork = TRUE

\* The seeds of the forked environment are pairwise disjoint and satisfiable.
WellFormedSeeds ==
    /\ PairwiseDisjoint(env.initial_forks)
    /\ \A i \in 1..Len(env.initial_forks) : Satisfiable(env.initial_forks[i])

\* The environment of the branch forked_states created from seed i.
BranchOfSeed(i) == forks[Len(env.initial_forks) + 1 - i].env

\* C8 as stated: for a Universal environment with pairwise-disjoint,
\* satisfiable seeds, the branches come in reverse seed order and
\* in_fork(seed j) on the branch created from seed i is true iff i = j.
C8_InForkIffOwnSeed ==
    (ForkedUniversal /\ WellFormedSeeds) =>
        LET seeds == env.initial_forks
            N == Len(seeds)
        IN  /\ N >= 1 => Len(forks) = N
            /\ \A i, j \in 1..N :
                  /\ BranchOfSeed(i).markers = And(markers(init[1].env), seeds[i])
                  /\ in_fork(BranchOfSeed(i), seeds[j]) <=> (i = j)

\* C8 amended: for a Universal environment with pairwise-disjoint, satisfiable
\* seeds, the branches come in reverse seed order, in_fork(seed j) on the
\* branch created from seed i is true only if i = j, and in_fork(seed i) on
\* that branch is true exactly when the parent's current expression is not
\* disjoint from seed i: always when the parent is still "always true".
C8_InForkOnlyOwnSeed ==
    (ForkedUniversal /\ WellFormedSeeds) =>
        LET seeds == env.initial_forks
            N == Len(seeds)
            parent == Matched(init[1].env)
        IN  /\ N >= 1 => Len(forks) = N
            /\ \A i, j \in 1..N :
                  /\ BranchOfSeed(i).markers = And(markers(init[1].env), seeds[i])
                  /\ in_fork(BranchOfSeed(i), seeds[j]) => (i = j)
                  /\ in_fork(BranchOfSeed(i), seeds[i]) <=>
                        (\E d \in parent : Evaluate(seeds[i], d))
                  /\ IsTrue(markers(init[1].env)) =>
                        (in_fork(BranchOfSeed(i), seeds[j]) <=> (i = j))

C8_Witness ==
    /\ ForkedUniversal
    /\ env.initial_forks = <<OsEq("linux"), OsEq("darwin")>>
    /\ path = <<>>
    /\ forks[1].env.markers = OsEq("darwin")
    /\ forks[2].env.markers = OsEq("linux")
    /\ in_fork(forks[2].env, OsEq("linux"))
    /\ ~in_fork(forks[1].env, OsEq("linux"))

\* C9: a Specific environment answers every query the same after any
\* sequence of narrow_markers calls as it did when constructed: included,
\* in_fork, marker_environment, markers ("always true"), try_markers
\* (absent), narrow_python_requirement, forked_states and the labels.
C9_SpecificNarrowingInvariant ==
    (pc # "new" /\ trail[1].kind = "Specific") =>
        LET S == trail[1]
        IN  /\ Len(trail) = Len(path) + 1
            /\ env = trail[Len(trail)]
            /\ \A k \in 1..Len(trail) :
                  LET E == trail[k]
                  IN  /\ \A m \in QueryPool :
                            /\ included(E, m) = included(S, m)
                            /\ in_fork(E, m) = in_fork(S, m)
                      /\ marker_environment(E) = marker_environment(S)
                      /\ markers(E) = MarkerTrue
                      /\ try_markers(E) = None
                      /\ \A r \in ReqPool :
                            narrow_python_requirement(E, r) =
                                narrow_python_requirement(S, r)
                      /\ \A r \in ForkReqPool :
                            /\ forked_states(E, ForkState(S, r)) =
                                  forked_states(S, ForkState(S, r))
                            /\ forked_states(E, ForkState(E, r)) =
                                  forked_states(S, ForkState(S, r))
                      /\ Display(E) = Display(S)
                      /\ end_user_fork_display(E) = end_user_fork_display(S)
            /\ AskedQuery =>
                  /\ obs[1].included = included(S, obs[1].marker)
                  /\ obs[1].in_fork = in_fork(S, obs[1].marker)
            /\ AskedRequirement =>
                  obs[1].result = narrow_python_requirement(S, obs[1].req)
            /\ pc = "forked" => forks = forked_states(S, init[1])

C9_Witness ==
    /\ pc = "forked"
    /\ env.kind = "Specific"
    /\ Pinned = [os |-> "darwin", py |-> 1]
    /\ path = <<OsEq("linux"), PyGe(2)>>
    /\ env = trail[1]
    /\ forks = <<init[1]>>

\* C10: narrow_python_requirement always returns an optional requirement; it
\* is absent exactly when no version range derives from markers() or the
\* requirement narrowed to the derived range is infeasible, and otherwise it
\* is the requirement narrowed to the derived range.
C10_NarrowPythonRequirementAbsent ==
    AskedRequirement =>
        LET req == obs[1].req
            result == obs[1].result
            range == RequiresPython(markers(env))
            absent == ~IsSome(range) \/ ~IsSome(Narrow(req, Unwrap(range)))
        IN  /\ \/ result = None
               \/ Len(result) = 1 /\ Unwrap(result).lo <= Unwrap(result).hi
            /\ (result = None) <=> absent
            /\ ~absent => result = Narrow(req, Unwrap(range))
            /\ ~absent =>
                  {v \in Py : Compatible(Unwrap(result), v)} =
                  {v \in Py : Compatible(req, v) /\ Compatible(Unwrap(range), v)}

C10_Witness ==
    /\ AskedRequirement
    /\ env.kind = "Universal"
    /\ path = <<PyGe(2)>>
    /\ IsSome(RequiresPython(markers(env)))
    /\ obs[1].req = [lo |-> 1, hi |-> 1]
    /\ obs[1].result = None

\* The last call was the introspection of env.
Inspected == obs # NoObs /\ obs[1].op = "inspect"

\* The environment is Universal and some descriptor is not matched by its
\* current expression.
ReallyNarrowed(e) == e.kind = "Universal" /\ \E d \in Desc : d \notin Matched(e)

\* C11: try_markers() is absent exactly when the environment is Specific or
\* Universal with an "always true" expression, and is otherwise the expression
\* markers() returns; the end-user fork label is present exactly when
\* try_markers() is, and a Universal environment renders as "All Marker
\* Environments" exactly when it is absent; the one branch of an un-narrowed
\* universal([]) has try_markers() absent and includes every satisfiable
\* marker.
C11_TryMarkers ==
    /\ Inspected =>
        /\ (obs[1].try_markers = None) <=> ~ReallyNarrowed(env)
        /\ ReallyNarrowed(env) =>
              /\ obs[1].try_markers = Some(obs[1].markers)
              /\ Unwrap(obs[1].try_markers) = Matched(env)
        /\ IsSome(obs[1].label) <=> IsSome(obs[1].try_markers)
        /\ env.kind = "Universal" =>
              ((obs[1].display = <<"All Marker Environments">>)
                  <=> (obs[1].try_markers = None))
        /\ env.kind = "Specific" => obs[1].display = <<"Marker Environment">>
    /\ (AskedQuery /\ env.kind = "Universal" /\ ~ReallyNarrowed(env)) =>
          (obs[1].included <=> Satisfiable(obs[1].marker))
    /\ (ForkedUniversal /\ env.initial_forks = <<>> /\ path = <<>>) =>
          /\ Len(forks) = 1
          /\ try_markers(forks[1].env) = None
          /\ \A m \in QueryPool :
                included(forks[1].env, m) <=> Satisfiable(m)

C11_Witness ==
    /\ Inspected
    /\ env.kind = "Universal"
    /\ path = <<OsEq("linux")>>
    /\ obs[1].try_markers = Some(OsEq("linux"))
    /\ obs[1].label = Some(<<"split", OsEq("linux")>>)
    /\ obs[1].display = <<"Split", OsEq("linux")>>

\* The seed list of an environment (a Specific one has none).
SeedsOf(e) == IF e.kind = "Universal" THEN e.initial_forks ELSE <<>>

\* C12: narrow_markers leaves its receiver alone and returns an environment
\* of the same variant with the same seed list: after any interleaving of
\* narrow_markers calls on the branches' clones the root environment and the
\* fork states forked_states returned are what they were, each branch's
\* expression is the one it was forked with conjoined with the arguments of
\* its own calls only, and every environment derived from the root has the
\* root's variant and seed list.
C12_NarrowMarkersFrame ==
    pc # "new" =>
        LET root == trail[1]
        IN  /\ env = trail[Len(trail)]
            /\ \A k \in 1..Len(trail) :
                  /\ trail[k].kind = root.kind
                  /\ SeedsOf(trail[k]) = SeedsOf(root)
            /\ \A k \in 1..Len(path) :
                  trail[k + 1] = narrow_markers(trail[k], path[k])
            /\ pc = "forked" =>
                  /\ init[1].env = env
                  /\ forks = forked_states(env, init[1])
                  /\ Len(branches) = Len(forks)
                  /\ Len(bpath) = Len(forks)
                  /\ \A i \in 1..Len(forks) :
                        /\ forks[i].env.kind = root.kind
                        /\ SeedsOf(forks[i].env) = SeedsOf(root)
                        /\ branches[i].kind = root.kind
                        /\ SeedsOf(branches[i]) = SeedsOf(root)
                        /\ root.kind = "Universal" =>
                              Matched(branches[i]) =
                                  {d \in Matched(forks[i].env) :
                                      \A k \in 1..Len(bpath[i]) :
                                          Evaluate(bpath[i][k], d)}
                        /\ root.kind = "Specific" => branches[i] = root

C12_Witness ==
    /\ ForkedUniversal
    /\ env.initial_forks = <<OsEq("linux"), OsEq("darwin")>>
    /\ path = <<>>
    /\ bpath = << <<PyGe(2)>>, <<OsEq("linux")>> >>
    /\ branches[1].markers = And(OsEq("darwin"), PyGe(2))
    /\ branches[2].markers = OsEq("linux")
    /\ branches[1].initial_forks = env.initial_forks
    /\ forks[1].env.markers = OsEq("darwin")

\* Every candidate that environment a excludes, environment b excludes too
\* (for included and for in_fork).
StaysExcluded(a, b) ==
    \A c \in QueryPool :
        /\ ~included(a, c) => ~included(b, c)
        /\ ~in_fork(a, c) => ~in_fork(b, c)

\* C13: on a Universal environment a candidate that is not included (not
\* in_fork) is not included (not in_fork) after any further narrow_markers
\* calls, on the root and on the branches forked from it; once the expression
\* is unsatisfiable no candidate is included or in_fork, "always true"
\* neither.
C13_ExclusionPermanent ==
    (pc # "new" /\ env.kind = "Universal") =>
        /\ \A i \in 1..Len(trail) : \A j \in i..Len(trail) :
              StaysExcluded(trail[i], trail[j])
        /\ \A k \in 1..Len(path) :
              StaysExcluded(trail[k], narrow_markers(trail[k], path[k]))
        /\ \A i \in 1..Len(branches) :
              /\ StaysExcluded(env, forks[i].env)
              /\ StaysExcluded(forks[i].env, branches[i])
        /\ \A e \in {env} \cup {branches[i] : i \in 1..Len(branches)} :
              ~Satisfiable(markers(e)) =>
                  /\ ~included(e, MarkerTrue)
                  /\ ~in_fork(e, MarkerTrue)
                  /\ \A c \in QueryPool : ~included(e, c) /\ ~in_fork(e, c)
        /\ AskedQuery =>
              /\ (\E k \in 1..Len(trail) : ~included(trail[k], obs[1].marker))
                    => ~obs[1].included
              /\ (\E k \in 1..Len(trail) : ~in_fork(trail[k], obs[1].marker))
                    => ~obs[1].in_fork

C13_Witness ==
    /\ AskedQuery
    /\ env.kind = "Universal"
    /\ path = <<OsEq("linux"), OsEq("win32")>>
    /\ included(trail[1], OsEq("darwin"))
    /\ ~included(trail[2], OsEq("darwin"))
    /\ ~Satisfiable(markers(env))
    /\ obs[1].marker = MarkerTrue
    /\ obs[1].included = FALSE
    /\ obs[1].in_fork = FALSE

====
